---- MODULE Spec2Model ----
(***************************************************************************)
(* A model of core/settings.py, the Django settings module of the          *)
(* Bangladesh location API.                                                *)
(*                                                                         *)
(* The module body runs once per process, at import.  It reads the process *)
(* environment (after merging BASE_DIR/.env into it), derives the settings *)
(* names, prints warnings on standard output and makes sure that           *)
(* BASE_DIR/logs/django.log exists.                                        *)
(*                                                                         *)
(* A Python str is a sequence of one-character strings; None is a value    *)
(* that is no str.  A dict (os.environ, the module namespace, a database   *)
(* configuration) is a function whose DOMAIN is the set of its keys.       *)
(***************************************************************************)
EXTENDS Naturals, Sequences, FiniteSets, TLC

VARIABLES
    shell,    \* the environment every process of the application inherits at boot
    dotenv,   \* the entries of BASE_DIR/.env (None: the file has no such entry)
    environ,  \* os.environ of the running process
    disk,     \* the file system entries at log_dir and log_file_path
    phase,    \* "unloaded" | "loaded" | "failed": the import of core.settings
    settings, \* the namespace of the imported module: name -> value
    stdout,   \* what the module body printed, in order
    boots,    \* process boots after the first one
    putenvs   \* changes made to os.environ since the boot

vars == <<shell, dotenv, environ, disk, phase, settings, stdout, boots, putenvs>>

-----------------------------------------------------------------------------
(* Bounds of the model. *)

\* longest environment value enumerated character by character
MaxLen == 5
\* most records the file handler appends to the log file
MaxLogLines == 2
\* most process boots after the first
MaxBoots == 2
\* most changes of os.environ after the settings are loaded, per process
MaxPutenvs == 1

-----------------------------------------------------------------------------
(* Python values. *)

None == <<"<None>">>

\* `not x` for x a str or None: true of None and of the empty str
Falsy(x) == x = None \/ x = <<>>

\* the characters str.strip() removes
Whitespace == {" ", "\t", "\n", "\r"}

Str_True == <<"T", "r", "u", "e">>
Str_False == <<"F", "a", "l", "s", "e">>
Str_localhost == <<"l", "o", "c", "a", "l", "h", "o", "s", "t">>
Str_star == <<"*">>
Str_sqlite_url ==
    <<"s", "q", "l", "i", "t", "e", ":", "/", "/", "/",
      "d", "b", ".", "s", "q", "l", "i", "t", "e", "3">>

\* the first index of character c in s, 0 when there is none (str.find + 1)
IndexOf(s, c) ==
    IF \E i \in 1..Len(s) : s[i] = c
    THEN CHOOSE i \in 1..Len(s) : s[i] = c /\ \A j \in 1..(i - 1) : s[j] # c
    ELSE 0

\* s.split(sep): left to right, every separator cuts, empty pieces are kept
RECURSIVE Split(_, _)
Split(s, sep) ==
    LET i == IndexOf(s, sep)
    IN  IF i = 0
        THEN <<s>>
        ELSE <<SubSeq(s, 1, i - 1)>> \o Split(SubSeq(s, i + 1, Len(s)), sep)

RECURSIVE LStrip(_)
LStrip(s) ==
    IF s # <<>> /\ Head(s) \in Whitespace THEN LStrip(Tail(s)) ELSE s

RECURSIVE RStrip(_)
RStrip(s) ==
    IF s # <<>> /\ s[Len(s)] \in Whitespace
    THEN RStrip(SubSeq(s, 1, Len(s) - 1))
    ELSE s

\* s.strip()
Strip(s) == RStrip(LStrip(s))

-----------------------------------------------------------------------------
(* The environment. *)

EnvNames ==
    {"SECRET_KEY", "DEBUG", "ALLOWED_HOSTS", "DATABASE_URL", "CORS_ALLOWED_ORIGINS"}

\* os.getenv(name, default): the variable's value, default when it is not set
Getenv(env, name, default) ==
    IF env[name] = None THEN default ELSE env[name]

\* load_dotenv(path) with override=False: an entry of the file is set in os.environ
\* unless the variable is already there (an empty value counts as there)
load_dotenv(env, file) ==
    [n \in EnvNames |-> IF env[n] = None THEN file[n] ELSE env[n]]

NoEnv == [n \in EnvNames |-> None]

-----------------------------------------------------------------------------
(* The settings the module derives from the environment.  `env` is          *)
(* os.environ as the body sees it, that is after load_dotenv.               *)

W_SECRET == "WARNING: Secret key not set. Using a random secret key."
W_DEBUG == "WARNING: Debug mode is enabled."
W_SQLITE == "WARNING: No database URL found in the environment. Using SQLite."
W_CORS_ALL == "WARNING: All CORS origins are allowed."
W_CORS_NONE == "WARNING: No CORS origins are allowed."

\* the keys get_random_secret_key() may return (50 random characters in the code)
RandomKeys == {<<"r", "1">>, <<"r", "2">>}

SecretKeyMissing(env) == Falsy(Getenv(env, "SECRET_KEY", None))

SECRET_KEY(env, rnd) ==
    IF SecretKeyMissing(env) THEN rnd ELSE Getenv(env, "SECRET_KEY", None)

\* a slip: bool(os.getenv("DEBUG")), true of every non-empty value
DEBUG_truthy(env) == ~Falsy(Getenv(env, "DEBUG", None))

DEBUG(env) == Getenv(env, "DEBUG", Str_False) = Str_True

\* a slip: the hosts trimmed and filtered the way the CORS origins are
ALLOWED_HOSTS_stripped(env) ==
    LET RECURSIVE Clean(_)
        Clean(segments) ==
            IF segments = <<>>
            THEN <<>>
            ELSE (IF Strip(Head(segments)) # <<>>
                  THEN <<Strip(Head(segments))>>
                  ELSE <<>>) \o Clean(Tail(segments))
    IN  Clean(Split(Getenv(env, "ALLOWED_HOSTS", Str_localhost), ","))

ALLOWED_HOSTS(env) == Split(Getenv(env, "ALLOWED_HOSTS", Str_localhost), ",")

DatabaseUrlMissing(env) == Falsy(Getenv(env, "DATABASE_URL", None))

DATABASE_URL(env) ==
    IF DatabaseUrlMissing(env)
    THEN Str_sqlite_url
    ELSE Getenv(env, "DATABASE_URL", None)

conn_max_age == 600

\* dj_database_url's SCHEMES table, for the schemes the model's URLs use
Engine(scheme) ==
    CASE scheme = <<"s", "q", "l", "i", "t", "e">> -> "django.db.backends.sqlite3"
      [] scheme = <<"p", "o", "s", "t", "g", "r", "e", "s">> ->
            "django.db.backends.postgresql"

\* dj_database_url.parse(url, conn_max_age=age) of scheme://host/name
dj_database_url_parse(url, age) ==
    LET colon == IndexOf(url, ":")
        rest == SubSeq(url, colon + 3, Len(url))
        slash == IndexOf(rest, "/")
    IN  [ENGINE |-> Engine(SubSeq(url, 1, colon - 1)),
         HOST |-> SubSeq(rest, 1, slash - 1),
         NAME |-> SubSeq(rest, slash + 1, Len(rest)),
         CONN_MAX_AGE |-> age]

\* dj_database_url.config(default=default, conn_max_age=age): the URL is read from
\* os.environ["DATABASE_URL"], `default` stands in only when the variable is not
\* set, and a URL that is empty gives the empty configuration {}
dj_database_url_config(env, default, age) ==
    LET s == Getenv(env, "DATABASE_URL", default)
    IN  IF Falsy(s) THEN <<>> ELSE dj_database_url_parse(s, age)

DATABASES(env) ==
    [default |-> dj_database_url_config(env, DATABASE_URL(env), conn_max_age)]

\* a slip: the wildcard recognised after trimming
CorsWildcard_stripped(env) ==
    Strip(Getenv(env, "CORS_ALLOWED_ORIGINS", <<>>)) = Str_star

\* the test of line 145
CorsWildcard(env) == Getenv(env, "CORS_ALLOWED_ORIGINS", None) = Str_star

\* a slip: [origin for origin in segments if origin.strip()]
RECURSIVE StripNonEmpty_untrimmed(_)
StripNonEmpty_untrimmed(segments) ==
    IF segments = <<>>
    THEN <<>>
    ELSE (IF Strip(Head(segments)) # <<>> THEN <<Head(segments)>> ELSE <<>>)
         \o StripNonEmpty_untrimmed(Tail(segments))

\* [origin.strip() for origin in segments if origin.strip()]
RECURSIVE StripNonEmpty(_)
StripNonEmpty(segments) ==
    IF segments = <<>>
    THEN <<>>
    ELSE (IF Strip(Head(segments)) # <<>> THEN <<Strip(Head(segments))>> ELSE <<>>)
         \o StripNonEmpty(Tail(segments))

\* a slip: [origin.strip() for origin in segments], the empty ones kept
CORS_ALLOWED_ORIGINS_unfiltered(env) ==
    LET segments == Split(Getenv(env, "CORS_ALLOWED_ORIGINS", <<>>), ",")
    IN  [i \in 1..Len(segments) |-> Strip(segments[i])]

CORS_ALLOWED_ORIGINS(env) ==
    StripNonEmpty(Split(Getenv(env, "CORS_ALLOWED_ORIGINS", <<>>), ","))

\* the names lines 144-155 bind
CorsNames(env) ==
    [CORS_ALLOW_CREDENTIALS |-> TRUE]
    @@ (IF CorsWildcard(env)
        THEN [CORS_ALLOW_ALL_ORIGINS |-> TRUE]
        ELSE [CORS_ALLOWED_ORIGINS |-> CORS_ALLOWED_ORIGINS(env)])

\* a slip: the wildcard branch prints nothing
CorsWarnings_silent_wildcard(env) ==
    IF ~CorsWildcard(env) /\ CORS_ALLOWED_ORIGINS(env) = <<>>
    THEN <<W_CORS_NONE>>
    ELSE <<>>

CorsWarnings(env) ==
    IF CorsWildcard(env)
    THEN <<W_CORS_ALL>>
    ELSE IF CORS_ALLOWED_ORIGINS(env) = <<>> THEN <<W_CORS_NONE>> ELSE <<>>

log_dir == "BASE_DIR/logs"
log_file_path == "BASE_DIR/logs/django.log"

LOGGING(env) ==
    [handlers |->
        [console |-> [level |-> IF DEBUG(env) THEN "DEBUG" ELSE "INFO",
                      formatter |-> IF DEBUG(env) THEN "verbose" ELSE "simple"],
         file |-> [level |-> "WARNING",
                   filename |-> log_file_path,
                   formatter |-> "verbose"]],
     root |-> [handlers |-> <<"console", "file">>,
               level |-> IF DEBUG(env) THEN "DEBUG" ELSE "INFO"]]

EMAIL_BACKEND(env) ==
    IF ~DEBUG(env)
    THEN "django.core.mail.backends.smtp.EmailBackend"
    ELSE "django.core.mail.backends.console.EmailBackend"

\* a slip: `if SECRET_KEY is None`, so that an empty key falls back unannounced
Warnings_secret_is_None(env) ==
    (IF Getenv(env, "SECRET_KEY", None) = None THEN <<W_SECRET>> ELSE <<>>)
    \o (IF DEBUG(env) THEN <<W_DEBUG>> ELSE <<>>)
    \o (IF DatabaseUrlMissing(env) THEN <<W_SQLITE>> ELSE <<>>)
    \o CorsWarnings(env)

\* everything the body prints, in the order of the prints
Warnings(env) ==
    (IF SecretKeyMissing(env) THEN <<W_SECRET>> ELSE <<>>)
    \o (IF DEBUG(env) THEN <<W_DEBUG>> ELSE <<>>)
    \o (IF DatabaseUrlMissing(env) THEN <<W_SQLITE>> ELSE <<>>)
    \o CorsWarnings(env)

\* the namespace of the module once its body has run to the end
Module(env, rnd) ==
    [SECRET_KEY |-> SECRET_KEY(env, rnd),
     DEBUG |-> DEBUG(env),
     ALLOWED_HOSTS |-> ALLOWED_HOSTS(env),
     DATABASE_URL |-> DATABASE_URL(env),
     DATABASES |-> DATABASES(env),
     LOGGING |-> LOGGING(env),
     EMAIL_BACKEND |-> EMAIL_BACKEND(env)]
    @@ CorsNames(env)

-----------------------------------------------------------------------------
(* The disk: the entries at log_dir and log_file_path.  A file's content is *)
(* the number of records in it.                                             *)

Paths == {log_dir, log_file_path}

Absent == [kind |-> "absent", lines |-> 0]
Directory == [kind |-> "dir", lines |-> 0]
File(n) == [kind |-> "file", lines |-> n]

\* os.makedirs(path, exist_ok=True): nothing to do for a directory, creates a
\* missing one, and raises FileExistsError when the path is not a directory
os_makedirs(d, path) ==
    CASE d[path].kind = "dir" -> [raised |-> FALSE, disk |-> d]
      [] d[path].kind = "absent" ->
            [raised |-> FALSE, disk |-> [d EXCEPT ![path] = Directory]]
      [] OTHER -> [raised |-> TRUE, disk |-> d]

\* Path.exists()
Exists(d, path) == d[path].kind # "absent"

\* Path.touch(): creates an empty file, leaves an existing entry's content alone
Touch(d, path) ==
    IF Exists(d, path) THEN d ELSE [d EXCEPT ![path] = File(0)]

\* a slip: open(log_file_path, "w").close() whether the file exists or not
EnsureLogFile_truncating(d) == [d EXCEPT ![log_file_path] = File(0)]

\* lines 163-164
EnsureLogFile(d) ==
    IF ~Exists(d, log_file_path) THEN Touch(d, log_file_path) ELSE d

-----------------------------------------------------------------------------
(* Actions. *)

\* The module body, top to bottom.  Every print precedes os.makedirs, so a
\* failing import has printed its warnings and binds no name.
Execute ==
    LET env == load_dotenv(environ, dotenv)
        made == os_makedirs(disk, log_dir)
    IN  /\ environ' = env
        /\ stdout' = stdout \o Warnings(env)
        /\ IF made.raised
           THEN /\ phase' = "failed"
                /\ settings' = <<>>
                /\ disk' = disk
           ELSE /\ phase' = "loaded"
                /\ \E rnd \in RandomKeys : settings' = Module(env, rnd)
                /\ disk' = EnsureLogFile(made.disk)
        /\ UNCHANGED <<shell, dotenv, boots, putenvs>>

\* a slip: the body runs again whenever the settings are consulted
Load_on_every_access ==
    /\ phase \in {"unloaded", "loaded"}
    /\ Execute

\* The import of core.settings: the body runs once per process, the first time
\* the module is imported.
Load ==
    /\ phase = "unloaded"
    /\ Execute

\* logging.FileHandler of LOGGING["handlers"]["file"] appends a record
WriteLog ==
    /\ phase = "loaded"
    /\ LET path == settings.LOGGING.handlers.file.filename
       IN  /\ disk[path].kind = "file"
           /\ disk[path].lines < MaxLogLines
           /\ disk' = [disk EXCEPT ![path].lines = @ + 1]
    /\ UNCHANGED <<shell, dotenv, environ, phase, settings, stdout, boots, putenvs>>

\* The process ends and the application is started again: a new process, with
\* the inherited environment and nothing imported; the disk stays as it is.
Boot ==
    /\ phase # "unloaded"
    /\ boots < MaxBoots
    /\ boots' = boots + 1
    /\ phase' = "unloaded"
    /\ settings' = <<>>
    /\ stdout' = <<>>
    /\ environ' = shell
    /\ putenvs' = 0
    /\ UNCHANGED <<shell, dotenv, disk>>

\* os.environ[name] = value (del os.environ[name] for None) after the import
SetEnv(name, value) ==
    /\ phase = "loaded"
    /\ putenvs < MaxPutenvs
    /\ environ[name] # value
    /\ environ' = [environ EXCEPT ![name] = value]
    /\ putenvs' = putenvs + 1
    /\ UNCHANGED <<shell, dotenv, disk, phase, settings, stdout, boots>>

-----------------------------------------------------------------------------
(* Initial states: a process that has not imported the settings yet. *)

\* every str of at most n characters of `alphabet`
Strings(alphabet, n) == UNION {[1..k -> alphabet] : k \in 0..n}

Str_postgres_url ==
    <<"p", "o", "s", "t", "g", "r", "e", "s", ":", "/", "/", "h", "/", "d">>
Str_sqlite_other == <<"s", "q", "l", "i", "t", "e", ":", "/", "/", "/", "x">>

\* the disks a boot may find
Disks ==
    {[p \in Paths |-> Absent]}
    \cup {[p \in Paths |-> IF p = log_dir THEN File(0) ELSE Absent]}
    \cup {[p \in Paths |-> IF p = log_dir THEN Directory ELSE e] :
            e \in {Absent, Directory} \cup {File(n) : n \in 0..MaxLogLines}}

InitWith(shells, files, disks) ==
    /\ shell \in shells
    /\ dotenv \in files
    /\ environ = shell
    /\ disk \in disks
    /\ phase = "unloaded"
    /\ settings = <<>>
    /\ stdout = <<>>
    /\ boots = 0
    /\ putenvs = 0

\* the values os.environ takes in the full specification
Choices ==
    [SECRET_KEY |-> {None, <<>>, <<"k">>},
     DEBUG |-> {None, Str_True, <<"1">>},
     ALLOWED_HOSTS |-> {None, <<"a">>},
     DATABASE_URL |-> {None, <<>>, Str_postgres_url},
     CORS_ALLOWED_ORIGINS |-> {None, Str_star, <<"a">>, <<" ", ",">>}]

Shells == {e \in [EnvNames -> UNION {Choices[n] : n \in EnvNames}] :
            \A n \in EnvNames : e[n] \in Choices[n]}

DotenvFiles ==
    {NoEnv,
     [NoEnv EXCEPT !["DEBUG"] = Str_True,
                   !["DATABASE_URL"] = Str_sqlite_other,
                   !["CORS_ALLOWED_ORIGINS"] = Str_star]}

Init == InitWith(Shells, DotenvFiles, Disks)

Next ==
    \/ Load
    \/ WriteLog
    \/ Boot
    \/ \E n \in EnvNames : \E v \in Choices[n] : SetEnv(n, v)

Spec == Init /\ [][Next]_vars

-----------------------------------------------------------------------------
(* Specifications of one derivation each: the variable takes every value of *)
(* at most MaxLen characters, the rest of the environment is not set, there *)
(* is no .env file and no logs directory yet, and the module is imported.   *)

NoLogs == [p \in Paths |-> Absent]

Only(name, values) == {[NoEnv EXCEPT ![name] = v] : v \in values}

CorsAlphabet == {"*", ",", " ", "\t", "a", "b"}
InitCors ==
    InitWith(Only("CORS_ALLOWED_ORIGINS", {None} \cup Strings(CorsAlphabet, MaxLen)),
             {NoEnv}, {NoLogs})
SpecCors == InitCors /\ [][Load]_vars

HostAlphabet == {",", " ", "a", "b"}
InitHosts ==
    InitWith(Only("ALLOWED_HOSTS", {None} \cup Strings(HostAlphabet, MaxLen)),
             {NoEnv}, {NoLogs})
SpecHosts == InitHosts /\ [][Load]_vars

DebugAlphabet == {"T", "t", "r", "u", "e", "1"}
InitDebug ==
    InitWith(Only("DEBUG", {None, Str_False} \cup Strings(DebugAlphabet, MaxLen)),
             {NoEnv}, {NoLogs})
SpecDebug == InitDebug /\ [][Load]_vars

-----------------------------------------------------------------------------
(* Vocabulary of the properties. *)

\* the value of a variable in the environment the module body reads: the
\* inherited environment completed by the .env file
Seen(name) == load_dotenv(shell, dotenv)[name]

Defined(name) == name \in DOMAIN settings

Printed(warning) == \E i \in 1..Len(stdout) : stdout[i] = warning

\* the comma-separated segments of a value, by the positions of its commas
Commas(v) == {i \in 1..Len(v) : v[i] = ","}
Cut(v, k) ==
    IF k = 0
    THEN 0
    ELSE IF k > Cardinality(Commas(v))
         THEN Len(v) + 1
         ELSE CHOOSE p \in Commas(v) : Cardinality({q \in Commas(v) : q < p}) = k - 1
Segment(v, k) == SubSeq(v, Cut(v, k - 1) + 1, Cut(v, k) - 1)
Segments(v) == [k \in 1..(Cardinality(Commas(v)) + 1) |-> Segment(v, k)]

\* a segment without its surrounding whitespace, by the positions of its ink
Trimmed(s) ==
    LET ink == {i \in 1..Len(s) : s[i] \notin Whitespace}
    IN  IF ink = {}
        THEN <<>>
        ELSE SubSeq(s, CHOOSE i \in ink : \A j \in ink : i <= j,
                       CHOOSE i \in ink : \A j \in ink : j <= i)

IsFullStr(x) == x # <<>>
Padded(x) == x # <<>> /\ (x[1] \in Whitespace \/ x[Len(x)] \in Whitespace)

-----------------------------------------------------------------------------
(* CORS. *)

\* C1: when CORS_ALLOWED_ORIGINS is not set or is the empty string, the loaded
\* module defines CORS_ALLOWED_ORIGINS as the empty list and does not define
\* CORS_ALLOW_ALL_ORIGINS.
C1_NoOriginsWhenUnsetOrEmpty ==
    (phase = "loaded" /\ Falsy(Seen("CORS_ALLOWED_ORIGINS")))
        => /\ Defined("CORS_ALLOWED_ORIGINS")
           /\ settings.CORS_ALLOWED_ORIGINS = <<>>
           /\ ~Defined("CORS_ALLOW_ALL_ORIGINS")

\* the module loaded with CORS_ALLOWED_ORIGINS set to the empty string
C1_Witness ==
    /\ phase = "loaded"
    /\ Seen("CORS_ALLOWED_ORIGINS") = <<>>
    /\ Defined("CORS_ALLOWED_ORIGINS")
    /\ settings.CORS_ALLOWED_ORIGINS = <<>>

\* C2: when CORS_ALLOWED_ORIGINS is "*", the loaded module sets
\* CORS_ALLOW_ALL_ORIGINS to True and has printed the all-origins warning.
C2_WildcardAllowsAllOrigins ==
    (phase = "loaded" /\ Seen("CORS_ALLOWED_ORIGINS") = Str_star)
        => /\ Defined("CORS_ALLOW_ALL_ORIGINS")
           /\ settings.CORS_ALLOW_ALL_ORIGINS = TRUE
           /\ Printed(W_CORS_ALL)

\* the module loaded with CORS_ALLOWED_ORIGINS="*"
C2_Witness ==
    /\ phase = "loaded"
    /\ Seen("CORS_ALLOWED_ORIGINS") = Str_star
    /\ Defined("CORS_ALLOW_ALL_ORIGINS")
    /\ stdout = <<W_SECRET, W_SQLITE, W_CORS_ALL>>

\* the origin list the property of C9 describes for value v: the segments
\* between the commas, each trimmed, the empty ones left out, in order
ExpectedOrigins(v) ==
    SelectSeq([k \in DOMAIN Segments(v) |-> Trimmed(Segment(v, k))], IsFullStr)

\* C9: for every value other than "*" (an unset variable reads as ""), the
\* list CORS_ALLOWED_ORIGINS is the comma-separated segments of the value, each
\* trimmed, without the segments that are empty once trimmed, in order and with
\* duplicates kept; no element is empty or starts or ends with whitespace.
C9_OriginsAreTrimmedNonEmptySegments ==
    (phase = "loaded" /\ Seen("CORS_ALLOWED_ORIGINS") # Str_star)
        => /\ Defined("CORS_ALLOWED_ORIGINS")
           /\ settings.CORS_ALLOWED_ORIGINS
                = ExpectedOrigins(Getenv(load_dotenv(shell, dotenv),
                                         "CORS_ALLOWED_ORIGINS", <<>>))
           /\ \A i \in DOMAIN settings.CORS_ALLOWED_ORIGINS :
                LET origin == settings.CORS_ALLOWED_ORIGINS[i]
                IN  /\ origin # <<>>
                    /\ ~Padded(origin)
                    /\ \A j \in DOMAIN origin : origin[j] # ","

\* " a,,a" gives ["a", "a"]: trimmed, the empty segment dropped, the duplicate kept
C9_Witness ==
    /\ phase = "loaded"
    /\ Seen("CORS_ALLOWED_ORIGINS") = <<" ", "a", ",", ",", "a">>
    /\ settings.CORS_ALLOWED_ORIGINS = << <<"a">>, <<"a">> >>

\* C10: exactly one of CORS_ALLOW_ALL_ORIGINS and CORS_ALLOWED_ORIGINS is
\* defined; CORS_ALLOW_ALL_ORIGINS is defined, as True, only when the variable is
\* exactly "*"; " * " and "*,a" take the list branch and put "*" into the list;
\* CORS_ALLOW_CREDENTIALS is True in both branches.
C10_WildcardIsExactMatch ==
    phase = "loaded"
        => /\ Defined("CORS_ALLOW_ALL_ORIGINS") # Defined("CORS_ALLOWED_ORIGINS")
           /\ Defined("CORS_ALLOW_ALL_ORIGINS")
                <=> Seen("CORS_ALLOWED_ORIGINS") = Str_star
           /\ Defined("CORS_ALLOW_ALL_ORIGINS")
                => settings.CORS_ALLOW_ALL_ORIGINS = TRUE
           /\ Defined("CORS_ALLOW_CREDENTIALS")
           /\ settings.CORS_ALLOW_CREDENTIALS = TRUE
           /\ Seen("CORS_ALLOWED_ORIGINS") = <<" ", "*", " ">>
                => /\ Defined("CORS_ALLOWED_ORIGINS")
                   /\ settings.CORS_ALLOWED_ORIGINS = << <<"*">> >>
           /\ Seen("CORS_ALLOWED_ORIGINS") = <<"*", ",", "a">>
                => /\ Defined("CORS_ALLOWED_ORIGINS")
                   /\ settings.CORS_ALLOWED_ORIGINS = << <<"*">>, <<"a">> >>

\* " * " loaded: the list branch, with the literal "*" as its only origin
C10_Witness ==
    /\ phase = "loaded"
    /\ Seen("CORS_ALLOWED_ORIGINS") = <<" ", "*", " ">>
    /\ ~Defined("CORS_ALLOW_ALL_ORIGINS")
    /\ settings.CORS_ALLOWED_ORIGINS = << <<"*">> >>
    /\ settings.CORS_ALLOW_CREDENTIALS = TRUE

-----------------------------------------------------------------------------
(* DEBUG. *)

\* C4: when DEBUG is "True", EMAIL_BACKEND is the console backend and the level
\* of the root logger and of the console handler is DEBUG; for every other
\* value, not set, empty, "true" and "1" included, EMAIL_BACKEND is the SMTP
\* backend and both levels are INFO.
C4_DebugSelectsBackendAndLevel ==
    phase = "loaded"
        => IF Seen("DEBUG") = <<"T", "r", "u", "e">>
           THEN /\ settings.EMAIL_BACKEND
                    = "django.core.mail.backends.console.EmailBackend"
                /\ settings.LOGGING.root.level = "DEBUG"
                /\ settings.LOGGING.handlers.console.level = "DEBUG"
           ELSE /\ settings.EMAIL_BACKEND
                    = "django.core.mail.backends.smtp.EmailBackend"
                /\ settings.LOGGING.root.level = "INFO"
                /\ settings.LOGGING.handlers.console.level = "INFO"

\* DEBUG="true" loaded: SMTP and INFO
C4_Witness ==
    /\ phase = "loaded"
    /\ Seen("DEBUG") = <<"t", "r", "u", "e">>
    /\ settings.EMAIL_BACKEND = "django.core.mail.backends.smtp.EmailBackend"
    /\ settings.LOGGING.root.level = "INFO"

-----------------------------------------------------------------------------
(* ALLOWED_HOSTS. *)

\* C6, as claimed: ALLOWED_HOSTS is ["localhost"] when the variable is not set,
\* and otherwise one valid host per comma-separated item, in order: the item
\* without surrounding whitespace, and never an empty entry.
C6_HostsAreValidEntries ==
    phase = "loaded"
        => IF Seen("ALLOWED_HOSTS") = None
           THEN settings.ALLOWED_HOSTS = <<Str_localhost>>
           ELSE /\ settings.ALLOWED_HOSTS
                    = [k \in DOMAIN Segments(Seen("ALLOWED_HOSTS")) |->
                          Trimmed(Segment(Seen("ALLOWED_HOSTS"), k))]
                /\ \A i \in DOMAIN settings.ALLOWED_HOSTS :
                      /\ settings.ALLOWED_HOSTS[i] # <<>>
                      /\ ~Padded(settings.ALLOWED_HOSTS[i])

\* C6, amended: ALLOWED_HOSTS is ["localhost"] when the variable is not set, and
\* otherwise exactly the comma-separated segments of the value as written, in
\* order, one entry per segment (one more than there are commas): nothing is
\* trimmed and nothing is dropped.
C6_HostsAreVerbatimSegments ==
    phase = "loaded"
        => IF Seen("ALLOWED_HOSTS") = None
           THEN settings.ALLOWED_HOSTS = <<Str_localhost>>
           ELSE /\ settings.ALLOWED_HOSTS = Segments(Seen("ALLOWED_HOSTS"))
                /\ Len(settings.ALLOWED_HOSTS)
                    = Cardinality(Commas(Seen("ALLOWED_HOSTS"))) + 1
                /\ \A i \in DOMAIN settings.ALLOWED_HOSTS :
                      \A j \in DOMAIN settings.ALLOWED_HOSTS[i] :
                          settings.ALLOWED_HOSTS[i][j] # ","

\* "a, b," loaded: the space before b is kept and the last entry is empty
C6_Witness ==
    /\ phase = "loaded"
    /\ Seen("ALLOWED_HOSTS") = <<"a", ",", " ", "b", ",">>
    /\ settings.ALLOWED_HOSTS = << <<"a">>, <<" ", "b">>, <<>> >>

-----------------------------------------------------------------------------
(* The database. *)

\* what sqlite:///db.sqlite3 configures
SqliteDefault ==
    [ENGINE |-> "django.db.backends.sqlite3",
     HOST |-> <<>>,
     NAME |-> <<"d", "b", ".", "s", "q", "l", "i", "t", "e", "3">>,
     CONN_MAX_AGE |-> 600]

\* what the URLs of the model configure
Configured(url) ==
    CASE url = Str_postgres_url ->
            [ENGINE |-> "django.db.backends.postgresql",
             HOST |-> <<"h">>, NAME |-> <<"d">>, CONN_MAX_AGE |-> 600]
      [] url = Str_sqlite_other ->
            [ENGINE |-> "django.db.backends.sqlite3",
             HOST |-> <<>>, NAME |-> <<"x">>, CONN_MAX_AGE |-> 600]

\* C3: when DATABASE_URL is not set or is empty, DATABASES["default"] is the
\* configuration of the local SQLite database sqlite:///db.sqlite3; when it is
\* set and not empty, DATABASES["default"] is the configuration parsed from it.
C3_DatabaseDefaultsToSqlite ==
    phase = "loaded"
        => IF Falsy(Seen("DATABASE_URL"))
           THEN settings.DATABASES.default = SqliteDefault
           ELSE settings.DATABASES.default = Configured(Seen("DATABASE_URL"))

-----------------------------------------------------------------------------
(* Warnings. *)

-----------------------------------------------------------------------------
(* The log file. *)

\* C7, as claimed: once the module has been loaded, whatever the disk held
\* before, the log directory is a directory and the log file is a file.
C7_LogFileExistsWhateverTheDisk ==
    phase # "unloaded"
        => /\ disk[log_dir].kind = "dir"
           /\ disk[log_file_path].kind = "file"

\* a step that runs the module body
LoadStep == phase = "unloaded" /\ phase' # "unloaded"

\* C7, amended.  Where logs is not there or is a directory, and logs/django.log
\* is not there or is a regular file: the load succeeds, after it logs is a
\* directory and django.log a file, created empty if it was not there and with
\* its content kept if it was.  Where logs is something else than a directory
\* the load fails and the disk is left as it was; where django.log is a
\* directory it is left one.  A load after the first changes nothing on disk,
\* and the file handler's filename is the path of that file.
C7_LogFileEnsured ==
    /\ [](phase = "loaded"
            => /\ settings.LOGGING.handlers.file.filename = log_file_path
               /\ disk[log_dir].kind = "dir"
               /\ disk[settings.LOGGING.handlers.file.filename].kind # "absent")
    /\ [][LoadStep =>
            /\ disk[log_dir].kind \in {"absent", "dir"}
                 => /\ phase' = "loaded"
                    /\ disk'[log_dir] = Directory
                    /\ disk'[log_file_path] =
                          IF disk[log_file_path].kind = "absent"
                          THEN File(0)
                          ELSE disk[log_file_path]
            /\ disk[log_dir].kind \notin {"absent", "dir"}
                 => phase' = "failed" /\ disk' = disk
            /\ boots > 0 => disk' = disk]_vars

\* a process booted and loaded again, over a log file that holds records
C7_Witness ==
    /\ phase = "loaded"
    /\ boots > 0
    /\ disk[log_file_path] = File(MaxLogLines)

-----------------------------------------------------------------------------
(* Immutability. *)

\* the namespace the module body derives from the environment it read
DerivedAtLoad(rnd) == Module(load_dotenv(shell, dotenv), rnd)

\* C8: the settings are derived from the environment as it is when the module
\* is loaded, and no change of an environment variable after that changes a
\* setting: while the module stays loaded its namespace stays what the load
\* made it.
C8_SettingsAreWrittenOnce ==
    /\ [](phase = "loaded" => \E rnd \in RandomKeys : settings = DerivedAtLoad(rnd))
    /\ [][(phase = "loaded" /\ phase' = "loaded") => settings' = settings]_vars

\* DEBUG set to "True" after a load that read no DEBUG: the settings keep False
C8_Witness ==
    /\ phase = "loaded"
    /\ putenvs > 0
    /\ Seen("DEBUG") = None
    /\ environ["DEBUG"] = Str_True
    /\ settings.DEBUG = FALSE
    /\ settings.EMAIL_BACKEND = "django.core.mail.backends.smtp.EmailBackend"

====
